---- MODULE Spec2Model ----
(***************************************************************************)
(* Model of pycox's label transforms (preprocessing/label_transforms.py)   *)
(* and discrete-time survival losses (models/loss.py).                     *)
(*                                                                         *)
(* Real numbers are fixed-point integers: the value v stands for v / Unit. *)
(* Python attributes that may be absent (hasattr) are sequences: << >> is  *)
(* "no such attribute", <<x>> is "attribute holds x".  The same encoding   *)
(* is used for dict.get results (<< >> is None).                           *)
(***************************************************************************)
EXTENDS Integers, Sequences, FiniteSets, TLC

VARIABLES cls, cox, disc, ret, hist, inp, out

vars == <<cls, cox, disc, ret, hist, inp, out>>

(***************************************************************************)
(* Bounds of the model.                                                    *)
(***************************************************************************)
MaxLen == 2
MaxDur == 2
MaxCuts == 2
MaxBatch == 2
NumBins == 2
NumRisks == 2
MaxLogit == 1
MaxInvSigma == 2
MaxMass == 2

(***************************************************************************)
(* Arithmetic.                                                             *)
(***************************************************************************)
Unit == 1000

Abs(x) == IF x < 0 THEN -x ELSE x

\* a / b rounded to the nearest integer (b > 0)
RoundDiv(a, b) == (2 * a + b) \div (2 * b)

RECURSIVE ISqrt(_)
ISqrt(v) ==
  IF v < 2 THEN v
  ELSE LET s == 2 * ISqrt(v \div 4)
       IN  IF (s + 1) * (s + 1) <= v THEN s + 1 ELSE s

RECURSIVE SumSeq(_)
SumSeq(s) == IF s = << >> THEN 0 ELSE Head(s) + SumSeq(Tail(s))

MaxOf(S) == CHOOSE x \in S : \A y \in S : y <= x

Range(s) == {s[i] : i \in DOMAIN s}

\* np.log1p on whole-number durations 0..7, in fixed point
Log1pTable == <<0, 693, 1099, 1386, 1609, 1792, 1946, 2079>>

log1p(x) == Log1pTable[x + 1]

\* a whole-number duration as a fixed-point value
ToFix(x) == x * Unit

(***************************************************************************)
(* sklearn.preprocessing.StandardScaler, as LabTransCoxTime uses it.       *)
(***************************************************************************)
\* fit: mean_ and scale_ (scale_ is 1 where the variance is 0)
Scaler_fit(xs) ==
  LET n     == Len(xs)
      mean  == RoundDiv(SumSeq(xs), n)
      var   == RoundDiv(SumSeq([i \in 1..n |-> (xs[i] - mean) * (xs[i] - mean)]), n)
      scale == ISqrt(var)
  IN  [mean_ |-> mean, scale_ |-> IF scale = 0 THEN Unit ELSE scale]

Scaler_transform_one(with_mean, with_std, params, x) ==
  LET c == IF with_mean THEN x - params.mean_ ELSE x
  IN  IF with_std THEN RoundDiv(c * Unit, params.scale_) ELSE c

Scaler_transform(with_mean, with_std, params, xs) ==
  [i \in 1..Len(xs) |-> Scaler_transform_one(with_mean, with_std, params, xs[i])]

(***************************************************************************)
(* LabTransCoxTime                                                         *)
(***************************************************************************)
CoxTime_init(log_duration, with_mean, with_std) ==
  [log_duration |-> log_duration, with_mean |-> with_mean, with_std |-> with_std,
   scaler |-> << >>, inverse_duration_map |-> << >>]

\* lines 47-48 / 57-58: optional log1p, before the scaler
CoxTime_pre(self, durations) ==
  [i \in 1..Len(durations) |->
     IF self.log_duration THEN log1p(durations[i]) ELSE ToFix(durations[i])]

\* a dict that would map every scaled duration to itself
BuildInverseScaledKeys(train_durations, scaled) ==
  [k \in Range(scaled) |-> k]

\* line 50: {scaled: orig for orig, scaled in zip(train_durations, durations)};
\* a later pair overwrites an earlier one with the same key
BuildInverse(train_durations, scaled) ==
  [k \in Range(scaled) |->
     train_durations[MaxOf({i \in DOMAIN scaled : scaled[i] = k})]]

DictGet(d, k) == IF k \in DOMAIN d THEN <<d[k]>> ELSE << >>

\* line 51: np.vectorize(dict.get), applied to an array of keys.  A key that is
\* not found yields << >> (None, or NaN once numpy coerces the output array).
Vectorize_get(d, keys) == [i \in 1..Len(keys) |-> DictGet(d, keys[i])]

\* events.astype('float32'): 0/1 indicators become the floats 0.0/1.0
AsFloat32(events) == [i \in 1..Len(events) |-> ToFix(events[i])]

CoxTime_fit_transform(self, durations, events) ==
  LET pre    == CoxTime_pre(self, durations)
      params == Scaler_fit(pre)
      scaled == Scaler_transform(self.with_mean, self.with_std, params, pre)
  IN  [self   |-> [self EXCEPT !.scaler = <<params>>,
                               !.inverse_duration_map = <<BuildInverse(durations, scaled)>>],
       status |-> "ok",
       val    |-> <<scaled, AsFloat32(events)>>]

CoxTime_fit(self, durations, events) ==
  LET r == CoxTime_fit_transform(self, durations, events)
  IN  [self |-> r.self, status |-> r.status, val |-> << >>]

\* a transform that would fit the scaler and the inverse map again
CoxTime_transform_refits(self, durations, events) ==
  CoxTime_fit_transform(self, durations, events)

CoxTime_transform(self, durations, events) ==
  IF self.scaler = << >>
  THEN [self |-> self, status |-> "NotFittedError", val |-> << >>]
  ELSE [self   |-> self,
        status |-> "ok",
        val    |-> <<Scaler_transform(self.with_mean, self.with_std, self.scaler[1],
                                      CoxTime_pre(self, durations)),
                     AsFloat32(events)>>]

\* the accessor as it would be without the hasattr test of line 35
CoxTime_map_scaled_to_orig_lenient(self, keys) ==
  IF self.inverse_duration_map = << >>
  THEN [self |-> self, status |-> "ok", val |-> [i \in 1..Len(keys) |-> << >>]]
  ELSE [self |-> self, status |-> "ok",
        val |-> Vectorize_get(self.inverse_duration_map[1], keys)]

\* the property map_scaled_to_orig, called on an array of keys
CoxTime_map_scaled_to_orig(self, keys) ==
  IF self.inverse_duration_map = << >>
  THEN [self |-> self, status |-> "ValueError", val |-> << >>]
  ELSE [self |-> self, status |-> "ok",
        val |-> Vectorize_get(self.inverse_duration_map[1], keys)]

(***************************************************************************)
(* pycox.preprocessing.discretization (make_cuts, IdxDiscUnknownC)         *)
(***************************************************************************)
RECURSIVE SortedSeq(_)
SortedSeq(S) ==
  IF S = {} THEN << >>
  ELSE LET m == CHOOSE x \in S : \A y \in S : x <= y
       IN  <<m>> \o SortedSeq(S \ {m})

\* the event times, ascending (with repetitions)
RECURSIVE SortedEventTimes(_, _)
SortedEventTimes(durations, events) ==
  LET idx == {i \in DOMAIN durations : events[i] # 0}
  IN  IF idx = {} THEN << >>
      ELSE LET m    == CHOOSE i \in idx : \A j \in idx : durations[i] <= durations[j]
               rest == {j \in idx : j # m}
           IN  <<ToFix(durations[m])>> \o
               SortedEventTimes([i \in DOMAIN durations |-> durations[i]],
                                [i \in DOMAIN durations |-> IF i \in rest THEN events[i] ELSE 0])

\* make_cuts(spec, durations, events, min_): [status, cuts]
make_cuts(spec, durations, events, min_) ==
  LET top == ToFix(MaxOf(Range(durations)))
  IN  IF spec.policy = "equidistant"
      THEN IF top <= min_
           THEN [status |-> "ConfigurationError", cuts |-> << >>]
           ELSE [status |-> "ok",
                 cuts   |-> [i \in 1..(spec.n + 1) |->
                               min_ + RoundDiv((i - 1) * (top - min_), spec.n)]]
      ELSE LET es == SortedEventTimes(durations, events)
               m  == Len(es)
               qs == {es[((i * m) + spec.n - 1) \div spec.n] : i \in 1..spec.n}
               cs == SortedSeq({min_} \cup {q \in qs : q > min_})
           IN  IF m = 0 \/ Len(cs) < 2
               THEN [status |-> "ConfigurationError", cuts |-> << >>]
               ELSE [status |-> "ok", cuts |-> cs]

\* IdxDiscUnknownC(cuts).transform(durations, events): censorings go to the cut at
\* or below the duration, events to the cut at or above it, inside [0, K-1]
Idu_transform_one(cuts, d, e) ==
  LET K     == Len(cuts) - 1
      below == {i \in 0..K : cuts[i + 1] <= d}
      above == {i \in 0..K : cuts[i + 1] >= d}
      floor == IF below = {} THEN 0 ELSE MaxOf(below)
      ceil  == IF above = {} THEN K ELSE CHOOSE i \in above : \A j \in above : i <= j
      raw   == IF e = 0 THEN floor ELSE ceil
  IN  IF raw > K - 1 THEN K - 1 ELSE raw

Idu_transform(cuts, durations, events) ==
  <<[i \in 1..Len(durations) |-> Idu_transform_one(cuts, ToFix(durations[i]), events[i])],
    [i \in 1..Len(durations) |-> events[i]]>>

(***************************************************************************)
(* LabTransDiscreteSurv                                                    *)
(***************************************************************************)
\* cuts is [kind |-> "int" | "tuple" | "array", policy, n, arr]
DiscreteSurv_init(cuts, min_) ==
  LET predefinded == cuts.kind = "array"
      stored      == IF cuts.kind = "int"
                     THEN [cuts EXCEPT !.kind = "tuple", !.policy = "equidistant"]
                     ELSE cuts
  IN  [predefinded_cuts |-> predefinded, cuts_spec |-> stored, min_ |-> min_,
       cuts |-> << >>, idu |-> << >>]

DiscreteSurv_fit(self, durations, events) ==
  IF self.predefinded_cuts
  THEN [self |-> self, status |-> "ok", val |-> << >>]
  ELSE LET mc == make_cuts(self.cuts_spec, durations, events, self.min_)
       IN  IF mc.status # "ok"
           THEN [self |-> self, status |-> mc.status, val |-> << >>]
           ELSE [self   |-> [self EXCEPT !.cuts = <<mc.cuts>>, !.idu = <<mc.cuts>>],
                 status |-> "ok", val |-> << >>]

DiscreteSurv_transform(self, durations, events) ==
  IF self.idu = << >>
  THEN [self |-> self, status |-> "AttributeError", val |-> << >>]
  ELSE LET r == Idu_transform(self.idu[1], durations, events)
       IN  [self |-> self, status |-> "ok", val |-> <<r[1], AsFloat32(r[2])>>]

DiscreteSurv_fit_transform(self, durations, events) ==
  LET f == DiscreteSurv_fit(self, durations, events)
  IN  IF f.status # "ok" THEN f
      ELSE DiscreteSurv_transform(f.self, durations, events)

(***************************************************************************)
(* Inputs of the label transforms.                                         *)
(***************************************************************************)
Cox == "LabTransCoxTime"
Disc == "LabTransDiscreteSurv"

DurArrays == UNION {[1..n -> 0..MaxDur] : n \in 1..MaxLen}

\* event indicators of one batch
EventArrays(d) == [1..Len(d) -> {0, 1}]

\* LabTransCoxTime only converts the events: all-censored and all-event batches
UniformEventArrays(d) == {[i \in 1..Len(d) |-> b] : b \in {0, 1}}

CutArrays == {<<0, ToFix(MaxDur)>>, <<0, ToFix(1), ToFix(MaxDur)>>}

CutSpecs ==
  {[kind |-> "int", policy |-> "", n |-> k, arr |-> << >>] : k \in 1..MaxCuts}
  \cup {[kind |-> "tuple", policy |-> p, n |-> k, arr |-> << >>] :
          p \in {"equidistant", "quantiles"}, k \in 1..MaxCuts}
  \cup {[kind |-> "array", policy |-> "", n |-> 0, arr |-> a] : a \in CutArrays}

NoInput == [family |-> "none"]
NoOutput == [fn |-> "none"]

Ret(op, r, arg) == [op |-> op, status |-> r.status, arg |-> arg, val |-> r.val]

InitLabTrans ==
  /\ cls \in {Cox, Disc}
  /\ cox \in {CoxTime_init(l, m, s) : l \in BOOLEAN, m \in BOOLEAN, s \in BOOLEAN}
  /\ cls = Disc => cox = CoxTime_init(FALSE, TRUE, TRUE)
  /\ disc \in {DiscreteSurv_init(c, 0) : c \in CutSpecs}
  /\ cls = Cox => disc = DiscreteSurv_init([kind |-> "int", policy |-> "", n |-> 1, arr |-> << >>], 0)
  /\ ret = [op |-> "init", status |-> "ok", arg |-> << >>, val |-> << >>]
  /\ hist = [fitted |-> FALSE, train |-> << >>]
  /\ inp = NoInput
  /\ out = NoOutput

CoxFit ==
  /\ cls = Cox
  /\ \E d \in DurArrays : \E e \in UniformEventArrays(d) :
       LET r == CoxTime_fit(cox, d, e)
       IN  /\ cox' = r.self
           /\ ret' = Ret("fit", r, << >>)
           /\ hist' = IF r.status = "ok" THEN [fitted |-> TRUE, train |-> <<d>>] ELSE hist
  /\ UNCHANGED <<cls, disc, inp, out>>

CoxFitTransform ==
  /\ cls = Cox
  /\ \E d \in DurArrays : \E e \in UniformEventArrays(d) :
       LET r == CoxTime_fit_transform(cox, d, e)
       IN  /\ cox' = r.self
           /\ ret' = Ret("fit_transform", r, << >>)
           /\ hist' = IF r.status = "ok" THEN [fitted |-> TRUE, train |-> <<d>>] ELSE hist
  /\ UNCHANGED <<cls, disc, inp, out>>

CoxTransform ==
  /\ cls = Cox
  /\ \E d \in DurArrays : \E e \in UniformEventArrays(d) :
       LET r == CoxTime_transform(cox, d, e)
       IN  /\ cox' = r.self
           /\ ret' = Ret("transform", r, << >>)
  /\ UNCHANGED <<cls, disc, hist, inp, out>>

\* the keys looked up are transformed durations, of the training set or not
LookupKeys(self, d) ==
  IF self.scaler = << >> THEN CoxTime_pre(self, d)
  ELSE Scaler_transform(self.with_mean, self.with_std, self.scaler[1], CoxTime_pre(self, d))

CoxMapScaledToOrig ==
  /\ cls = Cox
  /\ \E d \in DurArrays :
       LET keys == LookupKeys(cox, d)
           r    == CoxTime_map_scaled_to_orig(cox, keys)
       IN  /\ cox' = r.self
           /\ ret' = Ret("map_scaled_to_orig", r, keys)
  /\ UNCHANGED <<cls, disc, hist, inp, out>>

DiscFit ==
  /\ cls = Disc
  /\ \E d \in DurArrays : \E e \in EventArrays(d) :
       LET r == DiscreteSurv_fit(disc, d, e)
       IN  /\ disc' = r.self
           /\ ret' = Ret("fit", r, << >>)
           /\ hist' = IF r.status = "ok" THEN [fitted |-> TRUE, train |-> << >>] ELSE hist
  /\ UNCHANGED <<cls, cox, inp, out>>

DiscFitTransform ==
  /\ cls = Disc
  /\ \E d \in DurArrays : \E e \in EventArrays(d) :
       LET f == DiscreteSurv_fit(disc, d, e)
           r == DiscreteSurv_fit_transform(disc, d, e)
       IN  /\ disc' = r.self
           /\ ret' = Ret("fit_transform", r, << >>)
           /\ hist' = IF f.status = "ok" THEN [fitted |-> TRUE, train |-> << >>] ELSE hist
  /\ UNCHANGED <<cls, cox, inp, out>>

DiscTransform ==
  /\ cls = Disc
  /\ \E d \in DurArrays : \E e \in EventArrays(d) :
       LET r == DiscreteSurv_transform(disc, d, e)
       IN  /\ disc' = r.self
           /\ ret' = Ret("transform", r, << >>)
  /\ UNCHANGED <<cls, cox, hist, inp, out>>

NextLabTrans ==
  \/ CoxFit
  \/ CoxFitTransform
  \/ CoxTransform
  \/ CoxMapScaledToOrig
  \/ DiscFit
  \/ DiscFitTransform
  \/ DiscTransform

Spec == InitLabTrans /\ [][NextLabTrans]_vars

(***************************************************************************)
(* Properties of the label transforms.                                     *)
(***************************************************************************)
\* C1: once LabTransDiscreteSurv.fit has returned, whatever the cut
\* specification, the instance holds the index mapper idu, and a transform
\* called after a returned fit does not fail for lack of it.
FitBuildsIndexMapper ==
  cls = Disc =>
    /\ (ret.op = "fit" /\ ret.status = "ok") => disc.idu # << >>
    /\ (hist.fitted /\ ret.op \in {"transform", "fit_transform"})
          => ret.status # "AttributeError"

CoxUnfitted(self) == self.scaler = << >> /\ self.inverse_duration_map = << >>

DiscUnfitted(self) == self.cuts = << >> /\ self.idu = << >>

\* C2: as long as no fit (or fit_transform) has completed, the instance is
\* unfitted, and LabTransDiscreteSurv.transform and
\* LabTransCoxTime.map_scaled_to_orig fail with an error and return no value.
UnfittedCallsFail ==
  ~hist.fitted =>
    /\ cls = Cox => CoxUnfitted(cox)
    /\ cls = Disc => DiscUnfitted(disc)
    /\ (cls = Disc /\ ret.op = "transform") => (ret.status = "AttributeError" /\ ret.val = << >>)
    /\ (cls = Cox /\ ret.op = "map_scaled_to_orig")
          => (ret.status = "ValueError" /\ ret.val = << >>)

\* a transform attempted on an instance that no fit has completed on
UnfittedTransformFailed ==
  /\ cls = Disc
  /\ ~hist.fitted
  /\ ret.op = "transform"
  /\ ret.status = "AttributeError"
  /\ DiscUnfitted(disc)

\* C3: after fit_transform(d, e) = (d', e'), map_scaled_to_orig applied to d'
\* returns d, element by element, for every setting of the three flags.
RoundTripRecoversTraining ==
  (cls = Cox /\ ret.op = "fit_transform" /\ ret.status = "ok") =>
    LET d == hist.train[1]
        r == CoxTime_map_scaled_to_orig(cox, ret.val[1])
    IN  /\ r.status = "ok"
        /\ Len(r.val) = Len(d)
        /\ \A i \in 1..Len(d) : r.val[i] = <<d[i]>>

\* a fit_transform on two different durations with every flag set
RoundTripCase ==
  /\ cls = Cox
  /\ ret.op = "fit_transform"
  /\ cox.log_duration /\ cox.with_mean /\ cox.with_std
  /\ Len(hist.train[1]) >= 2
  /\ hist.train[1][1] # hist.train[1][2]

\* C10: the scaler and the inverse map are those of the most recent fit
\* (transform and lookups never write them), and a lookup resolves a key
\* exactly when it is the transformed value of one of that fit's training
\* durations; any other key yields no duration.
InverseMapIsOfLastFit ==
  cls = Cox =>
    /\ hist.train = << >> => CoxUnfitted(cox)
    /\ hist.train # << >> =>
         LET d    == hist.train[1]
             pre  == CoxTime_pre(cox, d)
             keys == Scaler_transform(cox.with_mean, cox.with_std, cox.scaler[1], pre)
         IN  /\ cox.scaler = <<Scaler_fit(pre)>>
             /\ cox.inverse_duration_map # << >>
             /\ DOMAIN cox.inverse_duration_map[1] = Range(keys)
             /\ \A i \in 1..Len(d) : cox.inverse_duration_map[1][keys[i]] \in Range(d)
             /\ (ret.op = "map_scaled_to_orig" /\ ret.status = "ok") =>
                   \A i \in 1..Len(ret.arg) :
                      IF ret.arg[i] \in Range(keys)
                      THEN ret.val[i] # << >> /\ ret.val[i][1] \in Range(d)
                      ELSE ret.val[i] = << >>

\* a lookup, after a fit and a later transform, of a key the fit never saw
UnseenKeyLookedUp ==
  /\ cls = Cox
  /\ hist.train # << >>
  /\ ret.op = "map_scaled_to_orig"
  /\ ret.status = "ok"
  /\ \E i \in 1..Len(ret.arg) : ret.val[i] = << >>

(***************************************************************************)
(* Tensor arithmetic of the losses (models/loss.py).                       *)
(*                                                                         *)
(* Inside a loss, tensors are sequences (vectors) and sequences of rows    *)
(* (matrices) of fixed-point numbers; exp, log and softmax round to        *)
(* 1 / Unit.  What a loss returns is a tensor [shape, el] of exact         *)
(* rationals <<num, den>>, el in row-major order, so that means and        *)
(* weighted sums are exact.                                                *)
(***************************************************************************)
RECURSIVE GCD(_, _)
GCD(a, b) == IF b = 0 THEN a ELSE GCD(b, a % b)

Rat(n, d) == IF n = 0 THEN <<0, 1>> ELSE LET g == GCD(Abs(n), d) IN <<n \div g, d \div g>>

RAdd(a, b) == Rat(a[1] * b[2] + b[1] * a[2], a[2] * b[2])

RMul(a, b) == Rat(a[1] * b[1], a[2] * b[2])

RECURSIVE RSum(_)
RSum(s) == IF s = << >> THEN <<0, 1>> ELSE RAdd(Head(s), RSum(Tail(s)))

\* e^k for k = -4 .. 3, in fixed point
ExpTable == <<18, 50, 135, 368, 1000, 2718, 7389, 20086>>

\* e^(f / Unit) for 0 <= f < Unit: the Taylor series, eight terms
RECURSIVE ExpSeries(_, _, _)
ExpSeries(f, term, i) ==
  IF i > 8 THEN 0 ELSE term + ExpSeries(f, (term * f) \div (Unit * i), i + 1)

\* torch.exp
ExpFx(x) ==
  LET k == x \div Unit
      f == x - k * Unit
  IN  IF k < -4 THEN 0
      ELSE (ExpTable[k + 5] * ExpSeries(f, Unit, 1)) \div Unit

Ln2 == 693

\* log(1e-7), the floor that the added epsilon puts under every logarithm
LnEpsilon == -16118

\* ln(m / Unit) for Unit <= m < 2 Unit: 2 atanh((m - 1) / (m + 1))
LnSeries(m) ==
  LET z  == RoundDiv((m - Unit) * Unit, m + Unit)
      z2 == (z * z) \div Unit
      z3 == (z * z2) \div Unit
      z5 == (z3 * z2) \div Unit
      z7 == (z5 * z2) \div Unit
  IN  2 * (z + z3 \div 3 + z5 \div 5 + z7 \div 7)

RECURSIVE LnFx(_)
LnFx(v) ==
  IF v >= 2 * Unit THEN Ln2 + LnFx(v \div 2)
  ELSE IF v < Unit THEN LnFx(2 * v) - Ln2
  ELSE LnSeries(v)

\* x.relu().add(epsilon).log(): epsilon = 1e-7 is below the resolution
LogEps(v) == IF v <= 0 THEN LnEpsilon ELSE LnFx(v)

\* an array comprehension, evaluated once
Vec(f) == SubSeq(f, 1, Len(f))

Mat(f) == Vec([i \in 1..Len(f) |-> Vec(f[i])])

RECURSIVE Cumsum(_)
Cumsum(row) ==
  IF row = << >> THEN << >>
  ELSE LET c == Cumsum(SubSeq(row, 1, Len(row) - 1))
       IN  Append(c, (IF c = << >> THEN 0 ELSE c[Len(c)]) + row[Len(row)])

\* softmax along a row
Softmax(row) ==
  LET e == Vec([k \in 1..Len(row) |-> ExpFx(row[k])])
      z == SumSeq(e)
  IN  Vec([k \in 1..Len(row) |-> RoundDiv(e[k] * Unit, z)])

\* pycox.models.utils.pad_col: append a column of zeros
pad_col(phi) == Vec([i \in 1..Len(phi) |-> Append(phi[i], 0)])

MatMul(a, b) ==
  Mat([i \in 1..Len(a) |-> [j \in 1..Len(b[1]) |->
     SumSeq(Vec([k \in 1..Len(b) |-> a[i][k] * b[k][j]]))]])

Transpose(a) == Mat([j \in 1..Len(a[1]) |-> [i \in 1..Len(a) |-> a[i][j]]])

\* tensors returned to the caller
T_scalar(x) == [shape |-> << >>, el |-> <<x>>]

T_vector(xs) == [shape |-> <<Len(xs)>>, el |-> xs]

T_column(xs) == [shape |-> <<Len(xs), 1>>, el |-> xs]

T_rows(t) == IF Len(t.shape) = 2 THEN t.shape[1] ELSE 1

T_cols(t) == IF Len(t.shape) >= 1 THEN t.shape[Len(t.shape)] ELSE 1

T_at(t, i, j) ==
  t.el[((IF T_rows(t) = 1 THEN 1 ELSE i) - 1) * T_cols(t) + (IF T_cols(t) = 1 THEN 1 ELSE j)]

\* a + b under the backend's broadcasting rules (shapes aligned from the right)
T_add(a, b) ==
  LET r    == IF T_rows(a) > T_rows(b) THEN T_rows(a) ELSE T_rows(b)
      c    == IF T_cols(a) > T_cols(b) THEN T_cols(a) ELSE T_cols(b)
      rank == IF Len(a.shape) > Len(b.shape) THEN Len(a.shape) ELSE Len(b.shape)
  IN  [shape |-> IF rank = 0 THEN << >> ELSE IF rank = 1 THEN <<c>> ELSE <<r, c>>,
       el    |-> Vec([p \in 1..(r * c) |->
                    RAdd(T_at(a, ((p - 1) \div c) + 1, ((p - 1) % c) + 1),
                         T_at(b, ((p - 1) \div c) + 1, ((p - 1) % c) + 1))])]

T_scale(x, t) == [shape |-> t.shape, el |-> Vec([p \in 1..Len(t.el) |-> RMul(x, t.el[p])])]

T_sum(t) == T_scalar(RSum(t.el))

T_mean(t) == T_scalar(RMul(RSum(t.el), <<1, Len(t.el)>>))

Raised(kind, stage) == [status |-> kind, stage |-> stage, val |-> T_scalar(<<0, 1>>)]

Returned(t) == [status |-> "ok", stage |-> "return", val |-> t]

(***************************************************************************)
(* Loss primitives                                                         *)
(***************************************************************************)
Reductions == {"none", "mean", "sum"}

_reduction(loss, reduction) ==
  IF reduction = "none" THEN Returned(loss)
  ELSE IF reduction = "mean" THEN Returned(T_mean(loss))
  ELSE IF reduction = "sum" THEN Returned(T_sum(loss))
  ELSE Raised("ValueError", "reduction")

\* nll_pmf as it would be without the guard of lines 32-33
nll_pmf_unchecked(phi, idx_durations, events, reduction) ==
  LET n      == Len(phi)
      padded == pad_col(phi)
      width  == Len(padded[1])
      gamma  == Vec([i \in 1..n |-> MaxOf(Range(padded[i]))])
      cumsum == Vec([i \in 1..n |->
                   Cumsum(Vec([k \in 1..width |-> ExpFx(padded[i][k] - gamma[i])]))])
      sum_   == Vec([i \in 1..n |-> cumsum[i][width]])
      part1  == Vec([i \in 1..n |-> (padded[i][idx_durations[i] + 1] - gamma[i]) * events[i]])
      part2  == Vec([i \in 1..n |-> -LogEps(sum_[i])])
      part3  == Vec([i \in 1..n |->
                   LogEps(sum_[i] - cumsum[i][idx_durations[i] + 1]) * (1 - events[i])])
      loss   == Vec([i \in 1..n |-> <<-(part1[i] + part2[i] + part3[i]), 1>>])
  IN  IF \E i \in 1..n : idx_durations[i] < 0 \/ idx_durations[i] >= width
      THEN Raised("RuntimeError", "gather")
      ELSE _reduction(T_vector(loss), reduction)

\* phi: n rows of K logits; idx_durations: n bin indices (0-based); events: n 0/1
nll_pmf(phi, idx_durations, events, reduction) ==
  LET n      == Len(phi)
      padded == pad_col(phi)
      width  == Len(padded[1])
      gamma  == Vec([i \in 1..n |-> MaxOf(Range(padded[i]))])
      cumsum == Vec([i \in 1..n |->
                   Cumsum(Vec([k \in 1..width |-> ExpFx(padded[i][k] - gamma[i])]))])
      sum_   == Vec([i \in 1..n |-> cumsum[i][width]])
      part1  == Vec([i \in 1..n |-> (padded[i][idx_durations[i] + 1] - gamma[i]) * events[i]])
      part2  == Vec([i \in 1..n |-> -LogEps(sum_[i])])
      part3  == Vec([i \in 1..n |->
                   LogEps(sum_[i] - cumsum[i][idx_durations[i] + 1]) * (1 - events[i])])
      loss   == Vec([i \in 1..n |-> <<-(part1[i] + part2[i] + part3[i]), 1>>])
  IN  IF MaxOf(Range(idx_durations)) >= Len(phi[1])
      THEN Raised("ValueError", "guard")
      ELSE IF \E i \in 1..n : idx_durations[i] < 0
      THEN Raised("RuntimeError", "gather")
      ELSE _reduction(T_vector(loss), reduction)

\* the differences as they would be without the transpose of line 85
_diff_cdf_at_time_i_untransposed(pmf, y) ==
  LET n      == Len(pmf)
      ones   == Vec([i \in 1..n |-> <<1>>])
      r      == MatMul(Vec([i \in 1..n |-> Cumsum(pmf[i])]), Transpose(y))
      diag_r == <<Vec([i \in 1..n |-> r[i][i]])>>
      od     == MatMul(ones, diag_r)
  IN  Mat([i \in 1..n |-> [j \in 1..n |-> od[i][j] - r[i][j]]])

_diff_cdf_at_time_i(pmf, y) ==
  LET n      == Len(pmf)
      ones   == Vec([i \in 1..n |-> <<1>>])
      r      == MatMul(Vec([i \in 1..n |-> Cumsum(pmf[i])]), Transpose(y))
      diag_r == <<Vec([i \in 1..n |-> r[i][i]])>>
      od     == MatMul(ones, diag_r)
  IN  Transpose(Mat([i \in 1..n |-> [j \in 1..n |-> od[i][j] - r[i][j]]]))

\* the rank loss as it would be without the factor rank_mat of line 61
_rank_loss_deephit_unmasked(pmf, y, rank_mat, sigma, reduction) ==
  LET n    == Len(pmf)
      r    == _diff_cdf_at_time_i(pmf, y)
      loss == Mat([i \in 1..n |-> [j \in 1..n |->
                 ExpFx(RoundDiv(-r[i][j] * sigma[2], sigma[1]))]])
      mean == Vec([i \in 1..n |-> Rat(SumSeq(loss[i]), n)])
  IN  _reduction(T_column(mean), reduction)

\* sigma is the rational <<num, den>>; rank_mat holds whole numbers
_rank_loss_deephit(pmf, y, rank_mat, sigma, reduction) ==
  LET n    == Len(pmf)
      r    == _diff_cdf_at_time_i(pmf, y)
      loss == Mat([i \in 1..n |-> [j \in 1..n |->
                 rank_mat[i][j] * ExpFx(RoundDiv(-r[i][j] * sigma[2], sigma[1]))]])
      mean == Vec([i \in 1..n |-> Rat(SumSeq(loss[i]), n)])
  IN  _reduction(T_column(mean), reduction)

\* one row of the 0/1 indicator matrix y
OneHot(width, k) == Vec([c \in 1..width |-> IF c = k + 1 THEN 1 ELSE 0])

rank_loss_deephit_single(phi, idx_durations, events, rank_mat, sigma, reduction) ==
  LET n     == Len(phi)
      pmf   == Vec([i \in 1..n |-> Softmax(pad_col(phi)[i])])
      width == Len(pmf[1])
      y     == Vec([i \in 1..n |-> OneHot(width, idx_durations[i])])
  IN  IF \E i \in 1..n : idx_durations[i] < 0 \/ idx_durations[i] >= width
      THEN Raised("RuntimeError", "scatter")
      ELSE _rank_loss_deephit(pmf, y, rank_mat, sigma, reduction)

\* Python's negative indices count from the end
Wrap(i, size) == IF i < 0 THEN i + size ELSE i

IndexOk(i, size) == -size <= i /\ i < size

\* pad_col(phi.view(batch_size, -1)).softmax(1)[:, :-1].view(phi.shape):
\* one softmax over all risks and bins of a sample, and the padded column
JointPmf(phi) ==
  Vec([i \in 1..Len(phi) |->
     LET R    == Len(phi[i])
         K    == Len(phi[i][1])
         flat == Vec([p \in 1..(R * K) |-> phi[i][((p - 1) \div K) + 1][((p - 1) % K) + 1]])
         sm   == Softmax(Append(flat, 0))
     IN  Mat([r \in 1..R |-> [k \in 1..K |-> sm[(r - 1) * K + k]]])])

\* phi: n samples of R rows of K logits; events: 0 is censored, r is risk r
nll_pmf_cr(phi, idx_durations, events, reduction) ==
  LET n        == Len(phi)
      R        == Len(phi[1])
      K        == Len(phi[1][1])
      ev       == Vec([i \in 1..n |-> events[i] - 1])
      event_01 == Vec([i \in 1..n |-> IF ev[i] # -1 THEN 1 ELSE 0])
      sm       == JointPmf(phi)
      part1    == Vec([i \in 1..n |->
                     LogEps(sm[i][Wrap(ev[i], R) + 1][Wrap(idx_durations[i], K) + 1])
                       * event_01[i]])
      part2    == Vec([i \in 1..n |->
                     LogEps(Unit - SumSeq(Vec([r \in 1..R |->
                               Cumsum(sm[i][r])[Wrap(idx_durations[i], K) + 1]])))
                       * (1 - event_01[i])])
      loss     == Vec([i \in 1..n |-> <<-(part1[i] + part2[i]), 1>>])
  IN  IF \E i \in 1..n : ~IndexOk(ev[i], R) \/ ~IndexOk(idx_durations[i], K)
      THEN Raised("IndexError", "index")
      ELSE _reduction(T_vector(loss), reduction)

\* sum(...) of a Python list of tensors
RECURSIVE T_sum_list(_)
T_sum_list(ts) ==
  IF Len(ts) = 1 THEN ts[1] ELSE T_add(ts[1], T_sum_list(Tail(ts)))

\* the loss as it would be with every risk's term kept for every uncensored sample
rank_loss_deephit_cr_all_risks(phi, idx_durations, events, rank_mat, sigma, reduction) ==
  LET n    == Len(phi)
      R    == Len(phi[1])
      K    == Len(phi[1][1])
      pmf  == JointPmf(phi)
      y    == Mat([i \in 1..n |-> [r \in 1..R |-> OneHot(K, Wrap(idx_durations[i], K))]])
      loss == Vec([r \in 1..R |->
                 LET rank_loss_i == _rank_loss_deephit(Vec([i \in 1..n |-> pmf[i][r]]),
                                                       Vec([i \in 1..n |-> y[i][r]]),
                                                       rank_mat, sigma, "none").val
                 IN  T_vector(Vec([i \in 1..n |->
                        RMul(rank_loss_i.el[i], <<IF events[i] # 0 THEN 1 ELSE 0, 1>>)]))])
  IN  IF \E i \in 1..n : ~IndexOk(idx_durations[i], K)
      THEN Raised("IndexError", "index")
      ELSE IF reduction = "none" THEN Returned(T_sum_list(loss))
      ELSE IF reduction = "mean" THEN Returned(T_sum_list(Vec([r \in 1..R |-> T_mean(loss[r])])))
      ELSE IF reduction = "sum" THEN Returned(T_sum_list(Vec([r \in 1..R |-> T_sum(loss[r])])))
      ELSE Raised("ValueError", "reduction")

rank_loss_deephit_cr(phi, idx_durations, events, rank_mat, sigma, reduction) ==
  LET n    == Len(phi)
      R    == Len(phi[1])
      K    == Len(phi[1][1])
      ev   == Vec([i \in 1..n |-> events[i] - 1])
      pmf  == JointPmf(phi)
      y    == Mat([i \in 1..n |-> [r \in 1..R |-> OneHot(K, Wrap(idx_durations[i], K))]])
      loss == Vec([r \in 1..R |->
                 LET rank_loss_i == _rank_loss_deephit(Vec([i \in 1..n |-> pmf[i][r]]),
                                                       Vec([i \in 1..n |-> y[i][r]]),
                                                       rank_mat, sigma, "none").val
                 IN  T_vector(Vec([i \in 1..n |->
                        RMul(rank_loss_i.el[i], <<IF ev[i] = r - 1 THEN 1 ELSE 0, 1>>)]))])
  IN  IF \E i \in 1..n : ~IndexOk(idx_durations[i], K)
      THEN Raised("IndexError", "index")
      ELSE IF reduction = "none" THEN Returned(T_sum_list(loss))
      ELSE IF reduction = "mean" THEN Returned(T_sum_list(Vec([r \in 1..R |-> T_mean(loss[r])])))
      ELSE IF reduction = "sum" THEN Returned(T_sum_list(Vec([r \in 1..R |-> T_sum(loss[r])])))
      ELSE Raised("ValueError", "reduction")

(***************************************************************************)
(* Loss modules: self is [alpha, sigma, reduction], alpha a rational       *)
(***************************************************************************)
Loss_init(alpha, sigma, reduction) ==
  [alpha |-> alpha, sigma |-> sigma, reduction |-> reduction]

\* self.alpha * nll + (1. - self.alpha) * rank_loss
Weighted(self, nll, rank_loss) ==
  IF nll.status # "ok" THEN nll
  ELSE IF rank_loss.status # "ok" THEN rank_loss
  ELSE Returned(T_add(T_scale(self.alpha, nll.val),
                      T_scale(RAdd(<<1, 1>>, RMul(<<-1, 1>>, self.alpha)), rank_loss.val)))

NLLPMFLoss_forward(self, phi, idx_durations, events) ==
  nll_pmf(phi, idx_durations, events, self.reduction)

DeepHitSingleLoss_forward(self, phi, idx_durations, events, rank_mat) ==
  Weighted(self,
           nll_pmf(phi, idx_durations, events, self.reduction),
           rank_loss_deephit_single(phi, idx_durations, events, rank_mat, self.sigma,
                                    self.reduction))

DeepHitLoss_forward(self, phi, idx_durations, events, rank_mat) ==
  Weighted(self,
           nll_pmf_cr(phi, idx_durations, events, self.reduction),
           rank_loss_deephit_cr(phi, idx_durations, events, rank_mat, self.sigma,
                                self.reduction))

(***************************************************************************)
(* The losses applied to bounded inputs.                                   *)
(***************************************************************************)
Logits == {ToFix(l) : l \in 0..MaxLogit}

\* bin indices, valid (0 .. NumBins - 1) and not
BinIndices == -1..(NumBins + 1)

\* for the competing-risks losses: the valid indices and the first one out of range
CrBinIndices == 0..NumBins

ReductionArgs == Reductions \cup {"max"}

\* sigma = 1 / d
Sigmas == {<<1, d>> : d \in 1..MaxInvSigma}

Alpha == <<1, 2>>

\* rank_mat as pair_rank_mat builds it: 0/1 entries, nothing on the diagonal
RankMats(n) == {m \in [1..n -> [1..n -> {0, 1}]] : \A i \in 1..n : m[i][i] = 0}

\* logits of one sample of a competing-risks batch: all equal, or one raised
\* logit, in the first bin of the first risk or the last bin of the last risk
RiskBlocks ==
  {Mat([r \in 1..NumRisks |-> [k \in 1..NumBins |->
          IF <<r, k>> = h THEN ToFix(MaxLogit) ELSE 0]]) :
     h \in {<<0, 0>>, <<1, 1>>, <<NumRisks, NumBins>>}}

SingleInput(i) ==
  \E n \in 1..MaxBatch :
    \E phi \in [1..n -> [1..NumBins -> Logits]], idx \in [1..n -> BinIndices],
       ev \in [1..n -> {0, 1}], rm \in RankMats(n), sg \in Sigmas, red \in ReductionArgs :
      i = [family |-> "single", phi |-> phi, idx_durations |-> idx, events |-> ev,
           rank_mat |-> rm, sigma |-> sg, reduction |-> red]

CrInput(i) ==
  \E n \in 1..MaxBatch :
    \E phi \in [1..n -> RiskBlocks], idx \in [1..n -> CrBinIndices],
       ev \in [1..n -> 0..NumRisks], rm \in RankMats(n), sg \in Sigmas, red \in ReductionArgs :
      i = [family |-> "cr", phi |-> phi, idx_durations |-> idx, events |-> ev,
           rank_mat |-> rm, sigma |-> sg, reduction |-> red]

\* pmf: any n-by-m matrix; y: one-hot rows, row i marking column T[i]
DiffInput(i) ==
  \E n \in 1..MaxBatch, m \in 1..(NumBins + 1) :
    \E pmf \in [1..n -> [1..m -> 0..MaxMass]], T \in [1..n -> 0..(m - 1)] :
      i = [family |-> "diff", pmf |-> pmf, T |-> T, y |-> [k \in 1..n |-> OneHot(m, T[k])]]

\* no label transform is in play while the losses are applied
NoLabelTransform ==
  /\ out = NoOutput
  /\ cls = "none"
  /\ cox = CoxTime_init(FALSE, TRUE, TRUE)
  /\ disc = DiscreteSurv_init([kind |-> "int", policy |-> "", n |-> 1, arr |-> << >>], 0)
  /\ ret = [op |-> "init", status |-> "ok", arg |-> << >>, val |-> << >>]
  /\ hist = [fitted |-> FALSE, train |-> << >>]

InitLoss == SingleInput(inp) /\ NoLabelTransform

InitLossCr == CrInput(inp) /\ NoLabelTransform

InitDiff == DiffInput(inp) /\ NoLabelTransform

\* The losses keep nothing between calls: a behaviour is one call on one input.
Out(fn, r) == [fn |-> fn, status |-> r.status, stage |-> r.stage, val |-> r.val]

Module(i) == Loss_init(Alpha, i.sigma, i.reduction)

Call_nll_pmf ==
  /\ inp.family = "single"
  /\ out = NoOutput
  /\ out' = Out("nll_pmf", nll_pmf(inp.phi, inp.idx_durations, inp.events, inp.reduction))
  /\ UNCHANGED <<cls, cox, disc, ret, hist, inp>>

Call_rank_loss_deephit_single ==
  /\ inp.family = "single"
  /\ out = NoOutput
  /\ out' = Out("rank_loss_deephit_single",
                rank_loss_deephit_single(inp.phi, inp.idx_durations, inp.events,
                                         inp.rank_mat, inp.sigma, inp.reduction))
  /\ UNCHANGED <<cls, cox, disc, ret, hist, inp>>

Call_NLLPMFLoss ==
  /\ inp.family = "single"
  /\ out = NoOutput
  /\ out' = Out("NLLPMFLoss",
                NLLPMFLoss_forward(Module(inp), inp.phi, inp.idx_durations, inp.events))
  /\ UNCHANGED <<cls, cox, disc, ret, hist, inp>>

Call_DeepHitSingleLoss ==
  /\ inp.family = "single"
  /\ out = NoOutput
  /\ out' = Out("DeepHitSingleLoss",
                DeepHitSingleLoss_forward(Module(inp), inp.phi, inp.idx_durations,
                                          inp.events, inp.rank_mat))
  /\ UNCHANGED <<cls, cox, disc, ret, hist, inp>>

Call_nll_pmf_cr ==
  /\ inp.family = "cr"
  /\ out = NoOutput
  /\ out' = Out("nll_pmf_cr",
                nll_pmf_cr(inp.phi, inp.idx_durations, inp.events, inp.reduction))
  /\ UNCHANGED <<cls, cox, disc, ret, hist, inp>>

Call_rank_loss_deephit_cr ==
  /\ inp.family = "cr"
  /\ out = NoOutput
  /\ out' = Out("rank_loss_deephit_cr",
                rank_loss_deephit_cr(inp.phi, inp.idx_durations, inp.events,
                                     inp.rank_mat, inp.sigma, inp.reduction))
  /\ UNCHANGED <<cls, cox, disc, ret, hist, inp>>

Call_DeepHitLoss ==
  /\ inp.family = "cr"
  /\ out = NoOutput
  /\ out' = Out("DeepHitLoss",
                DeepHitLoss_forward(Module(inp), inp.phi, inp.idx_durations,
                                    inp.events, inp.rank_mat))
  /\ UNCHANGED <<cls, cox, disc, ret, hist, inp>>

Call_diff_cdf_at_time_i ==
  /\ inp.family = "diff"
  /\ out = NoOutput
  /\ out' = Out("_diff_cdf_at_time_i",
                [status |-> "ok", stage |-> "return",
                 val |-> _diff_cdf_at_time_i(inp.pmf, inp.y)])
  /\ UNCHANGED <<cls, cox, disc, ret, hist, inp>>

NextLoss ==
  \/ Call_nll_pmf
  \/ Call_rank_loss_deephit_single
  \/ Call_NLLPMFLoss
  \/ Call_DeepHitSingleLoss

NextLossCr ==
  \/ Call_nll_pmf_cr
  \/ Call_rank_loss_deephit_cr
  \/ Call_DeepHitLoss

\* the single-risk losses
SpecLoss == InitLoss /\ [][NextLoss]_vars

\* the competing-risks losses
SpecLossCr == InitLossCr /\ [][NextLossCr]_vars

\* the pairwise cdf differences
SpecDiff == InitDiff /\ [][Call_diff_cdf_at_time_i]_vars

(***************************************************************************)
(* Properties of the losses                                                *)
(***************************************************************************)
\* the loss named fn applied to input i under the given reduction mode
Apply(fn, i, reduction) ==
  LET self == Loss_init(Alpha, i.sigma, reduction)
  IN  CASE fn = "nll_pmf" ->
             nll_pmf(i.phi, i.idx_durations, i.events, reduction)
        [] fn = "rank_loss_deephit_single" ->
             rank_loss_deephit_single(i.phi, i.idx_durations, i.events, i.rank_mat,
                                      i.sigma, reduction)
        [] fn = "NLLPMFLoss" ->
             NLLPMFLoss_forward(self, i.phi, i.idx_durations, i.events)
        [] fn = "DeepHitSingleLoss" ->
             DeepHitSingleLoss_forward(self, i.phi, i.idx_durations, i.events, i.rank_mat)
        [] fn = "nll_pmf_cr" ->
             nll_pmf_cr(i.phi, i.idx_durations, i.events, reduction)
        [] fn = "rank_loss_deephit_cr" ->
             rank_loss_deephit_cr(i.phi, i.idx_durations, i.events, i.rank_mat,
                                  i.sigma, reduction)
        [] fn = "DeepHitLoss" ->
             DeepHitLoss_forward(self, i.phi, i.idx_durations, i.events, i.rank_mat)

LossPrimitives == {"nll_pmf", "rank_loss_deephit_single", "nll_pmf_cr", "rank_loss_deephit_cr"}

LossModules == {"NLLPMFLoss", "DeepHitSingleLoss", "DeepHitLoss"}

\* C4: for every loss primitive and loss module, what 'sum' returns is the sum
\* of the elements of what 'none' returns on the same inputs, and what 'mean'
\* returns is their mean.
ReductionModesAgree ==
  (out.fn \in LossPrimitives \cup LossModules /\ out.status = "ok"
     /\ inp.reduction \in {"sum", "mean"}) =>
    LET none == Apply(out.fn, inp, "none")
    IN  /\ none.status = "ok"
        /\ inp.reduction = "sum" => out.val = T_sum(none.val)
        /\ inp.reduction = "mean" => out.val = T_mean(none.val)

\* C5: nll_pmf fails at its guard, before any part of the loss is computed,
\* exactly when some index is at least phi.shape[1]; with every index in
\* [0, K - 1] and a valid reduction it returns a loss.
NllPmfGuard ==
  out.fn = "nll_pmf" =>
    LET K   == Len(inp.phi[1])
        idx == inp.idx_durations
    IN  /\ out.stage = "guard" <=> \E i \in 1..Len(idx) : idx[i] >= K
        /\ out.stage = "guard" => out.status = "ValueError"
        /\ ((\A i \in 1..Len(idx) : idx[i] \in 0..(K - 1)) /\ inp.reduction \in Reductions)
             => (out.status = "ok" /\ out.stage = "return")

\* nll_pmf stopped at its guard by an index that names the padded column
NllPmfGuardTripped ==
  /\ out.fn = "nll_pmf"
  /\ out.status = "ValueError"
  /\ out.stage = "guard"
  /\ \A i \in 1..Len(inp.idx_durations) : inp.idx_durations[i] <= Len(inp.phi[1])
  /\ \E i \in 1..Len(inp.idx_durations) : inp.idx_durations[i] = Len(inp.phi[1])

\* F_k(t): the mass of row k up to and including bin t, summed directly
CdfAt(pmf, k, t) == SumSeq(SubSeq(pmf[k], 1, t + 1))

\* C6: _diff_cdf_at_time_i returns R with R[i][j] = F_i(T_i) - F_j(T_i), the
\* value a direct double loop over i and j computes; its diagonal is zero.
DiffCdfMatchesDoubleLoop ==
  out.fn = "_diff_cdf_at_time_i" =>
    LET n == Len(inp.pmf)
    IN  /\ Len(out.val) = n
        /\ \A i \in 1..n :
             /\ Len(out.val[i]) = n
             /\ out.val[i][i] = 0
             /\ \A j \in 1..n :
                  out.val[i][j] = CdfAt(inp.pmf, i, inp.T[i]) - CdfAt(inp.pmf, j, inp.T[i])

\* two samples with different event bins and an asymmetric result
DiffCdfAsymmetric ==
  /\ out.fn = "_diff_cdf_at_time_i"
  /\ Len(inp.pmf) = 2
  /\ inp.T[1] # inp.T[2]
  /\ out.val[1][2] # 0
  /\ out.val[1][2] # -out.val[2][1]

AllZero(rank_mat) ==
  \A i \in 1..Len(rank_mat) : \A j \in 1..Len(rank_mat) : rank_mat[i][j] = 0

\* the rank loss of sample i summed over the flagged pairs (i, j) only
FlaggedPairsMean(r, rank_mat, sigma, i) ==
  LET n     == Len(rank_mat)
      pairs == {j \in 1..n : rank_mat[i][j] # 0}
      RECURSIVE Over(_)
      Over(S) == IF S = {} THEN 0
                 ELSE LET j == CHOOSE x \in S : TRUE
                      IN  rank_mat[i][j] * ExpFx(RoundDiv(-r[i][j] * sigma[2], sigma[1]))
                            + Over(S \ {j})
  IN  Rat(Over(pairs), n)

\* C7: a pair (i, j) with rank_mat[i][j] = 0 contributes nothing to the rank
\* loss of sample i, whatever phi and sigma; with rank_mat all zero the rank
\* loss is 0 under every reduction mode.
ZeroRankPairsContributeNothing ==
  (out.fn = "rank_loss_deephit_single" /\ out.status = "ok") =>
    LET n    == Len(inp.phi)
        pmf  == Vec([i \in 1..n |-> Softmax(Append(inp.phi[i], 0))])
        y    == Vec([i \in 1..n |-> OneHot(Len(pmf[1]), inp.idx_durations[i])])
        r    == _diff_cdf_at_time_i(pmf, y)
        none == T_column(Vec([i \in 1..n |->
                   FlaggedPairsMean(r, inp.rank_mat, inp.sigma, i)]))
    IN  /\ out.val = _reduction(none, inp.reduction).val
        /\ AllZero(inp.rank_mat) =>
             \A p \in 1..Len(out.val.el) : out.val.el[p] = <<0, 1>>

\* of two samples, the one whose pair is flagged has a loss and the other none
OnePairFlagged ==
  /\ out.fn = "rank_loss_deephit_single"
  /\ out.status = "ok"
  /\ inp.reduction = "none"
  /\ Len(inp.phi) = 2
  /\ inp.rank_mat[1][2] = 1
  /\ inp.rank_mat[2][1] = 0
  /\ out.val.el[1] # <<0, 1>>
  /\ out.val.el[2] = <<0, 1>>

\* C8: every loss primitive that takes idx_durations fails when some index is
\* at least K, the number of bins of phi; none returns a loss for it.
OutOfRangeIndexFails ==
  (out.fn \in LossPrimitives
     /\ \E i \in 1..Len(inp.idx_durations) : inp.idx_durations[i] >= NumBins)
    => out.status # "ok"

\* the single-risk rank term of risk r on its slice of the joint pmf
SingleRiskTerm(i, r) ==
  LET n    == Len(i.phi)
      K    == Len(i.phi[1][1])
      pmf  == JointPmf(i.phi)
      pmfr == Vec([s \in 1..n |-> pmf[s][r]])
      yr   == Vec([s \in 1..n |-> OneHot(K, i.idx_durations[s])])
  IN  _rank_loss_deephit(pmfr, yr, i.rank_mat, i.sigma, "none").val

\* C9: under reduction 'none', rank_loss_deephit_cr gives sample i the
\* single-risk rank term of risk r on risk r's pmf slice when events[i] = r,
\* and 0 when sample i is censored.
CrRankLossPerSample ==
  (out.fn = "rank_loss_deephit_cr" /\ out.status = "ok" /\ inp.reduction = "none") =>
    LET n == Len(inp.phi)
    IN  /\ out.val.shape = <<n>>
        /\ \A i \in 1..n :
             out.val.el[i] = IF inp.events[i] = 0 THEN <<0, 1>>
                             ELSE SingleRiskTerm(inp, inp.events[i]).el[i]

\* a sample with the last risk next to a censored one, every pair flagged
CrEventBesideCensored ==
  /\ out.fn = "rank_loss_deephit_cr"
  /\ out.status = "ok"
  /\ inp.reduction = "none"
  /\ Len(inp.phi) = 2
  /\ inp.events = <<NumRisks, 0>>
  /\ inp.rank_mat[1][2] = 1
  /\ inp.rank_mat[2][1] = 1
  /\ out.val.el[1] # <<0, 1>>
  /\ out.val.el[2] = <<0, 1>>

====
